---- MODULE Spec2Model ----
(***************************************************************************)
(* A model of the two transform pipelines of the repository:               *)
(*   scripts/transform_best_sellers.py   (mode "best_sellers")             *)
(*   scripts/transform_movers_shakers.py (mode "movers_shakers")           *)
(*                                                                         *)
(* Text is modelled as a sequence of one-character strings, so that the    *)
(* regular expressions, strip(), split() and the substring tests of the    *)
(* code are computed character by character.  A float is a rational        *)
(* [nan, n, d] (d > 0), NaN being [nan |-> TRUE]; an optional text is      *)
(* [none, s].                                                              *)
(***************************************************************************)
EXTENDS Integers, Sequences, FiniteSets, TLC

VARIABLES mode, pc, arg, ret, headers, cells, df, zero_div, out

vars == <<mode, pc, arg, ret, headers, cells, df, zero_div, out>>

Modes == {"best_sellers", "movers_shakers"}

(***************************************************************************)
(* Text helpers: Python's str methods and the regex character classes.     *)
(***************************************************************************)
UpperSeq ==
  <<"A","B","C","D","E","F","G","H","I","J","K","L","M",
    "N","O","P","Q","R","S","T","U","V","W","X","Y","Z">>

LowerSeq ==
  <<"a","b","c","d","e","f","g","h","i","j","k","l","m",
    "n","o","p","q","r","s","t","u","v","w","x","y","z">>

DigitSeq == <<"0","1","2","3","4","5","6","7","8","9">>

Range(f) == {f[i] : i \in DOMAIN f}

IsDigit(c) == c \in Range(DigitSeq)

IsUpper(c) == c \in Range(UpperSeq)

\* \s of the regular expressions and the characters str.strip() removes
IsSpace(c) == c \in {" ", "\t", "\n"}

DigitVal(c) == (CHOOSE i \in 1..10 : DigitSeq[i] = c) - 1

LowerChar(c) ==
  IF IsUpper(c) THEN LowerSeq[CHOOSE i \in 1..26 : UpperSeq[i] = c] ELSE c

\* str.lower()
Lower(s) == [i \in 1..Len(s) |-> LowerChar(s[i])]

Drop(s, k) == SubSeq(s, k + 1, Len(s))

Take(s, k) == SubSeq(s, 1, k)

\* w occurs in s at position i
OccursAt(s, w, i) ==
  /\ i >= 1
  /\ i + Len(w) - 1 <= Len(s)
  /\ SubSeq(s, i, i + Len(w) - 1) = w

\* "w in s"
Contains(s, w) == \E i \in 1..(Len(s) + 1) : OccursAt(s, w, i)

\* s.startswith(w)
StartsWith(s, w) == OccursAt(s, w, 1)

RECURSIVE LStrip(_)
LStrip(s) ==
  IF s # <<>> /\ IsSpace(Head(s)) THEN LStrip(Tail(s)) ELSE s

RECURSIVE RStrip(_)
RStrip(s) ==
  IF s # <<>> /\ IsSpace(s[Len(s)]) THEN RStrip(Take(s, Len(s) - 1)) ELSE s

\* str.strip()
Strip(s) == RStrip(LStrip(s))

\* the characters of s that satisfy Keep, in order (re.sub of a negated class)
RECURSIVE Filter(_, _)
Filter(s, keep) ==
  IF s = <<>> THEN <<>>
  ELSE IF Head(s) \in keep THEN <<Head(s)>> \o Filter(Tail(s), keep)
  ELSE Filter(Tail(s), keep)

\* the characters of s up to the first line break: what ".*" matches
RECURSIVE DotStar(_)
DotStar(s) ==
  IF s = <<>> \/ Head(s) = "\n" THEN <<>>
  ELSE <<Head(s)>> \o DotStar(Tail(s))

(***************************************************************************)
(* Optional text (None or a str).                                          *)
(***************************************************************************)
None == [none |-> TRUE, s |-> <<>>]

Some(s) == [none |-> FALSE, s |-> s]

(***************************************************************************)
(* extract_asin                                                            *)
(***************************************************************************)
\* the {10} of both patterns
AsinLen == 10

DpMarker == <<"/","d","p","/">>

GpMarker == <<"/","g","p","/","p","r","o","d","u","c","t","/">>

\* [A-Z0-9]
IsAsinChar(c) == IsUpper(c) \/ IsDigit(c)

\* the pattern  marker([A-Z0-9]{10})  matches s at position i
AsinMatchAt(s, marker, i) ==
  /\ OccursAt(s, marker, i)
  /\ i + Len(marker) + AsinLen - 1 <= Len(s)
  /\ \A k \in 0..(AsinLen - 1) : IsAsinChar(s[i + Len(marker) + k])

AsinMatches(s, marker) == {i \in 1..Len(s) : AsinMatchAt(s, marker, i)}

Min(S) == CHOOSE x \in S : \A y \in S : x <= y

Max(S) == CHOOSE x \in S : \A y \in S : x >= y

\* re.search(pattern, link).group(1): the group of the leftmost match
AsinGroup(s, marker) ==
  LET i == Min(AsinMatches(s, marker))
  IN  SubSeq(s, i + Len(marker), i + Len(marker) + AsinLen - 1)

AsinPatterns == <<DpMarker, GpMarker>>

\* a variant that also accepts lower-case letters in the identifier
ExtractAsinAnyCase(link) ==
  IF link.none THEN None
  ELSE LET up == [i \in 1..Len(link.s) |->
                    IF link.s[i] \in Range(LowerSeq) THEN "A" ELSE link.s[i]]
           at(m) == Min(AsinMatches(up, m)) + Len(m)
       IN  IF AsinMatches(up, DpMarker) # {}
             THEN Some(SubSeq(link.s, at(DpMarker), at(DpMarker) + AsinLen - 1))
           ELSE IF AsinMatches(up, GpMarker) # {}
             THEN Some(SubSeq(link.s, at(GpMarker), at(GpMarker) + AsinLen - 1))
           ELSE None

\* transform_best_sellers.extract_asin(link); link.none stands for a value
\* that is not a str
ExtractAsinBS(link) ==
  IF link.none THEN None
  ELSE IF AsinMatches(link.s, DpMarker) # {}
    THEN Some(AsinGroup(link.s, DpMarker))
  ELSE IF AsinMatches(link.s, GpMarker) # {}
    THEN Some(AsinGroup(link.s, GpMarker))
  ELSE None

\* transform_movers_shakers.extract_asin(link): the first pattern of the
\* list, in order, that matches
ExtractAsinMS(link) ==
  IF link.none THEN None
  ELSE LET hits == {k \in DOMAIN AsinPatterns :
                      AsinMatches(link.s, AsinPatterns[k]) # {}}
       IN  IF hits = {} THEN None
           ELSE Some(AsinGroup(link.s, AsinPatterns[Min(hits)]))

ExtractAsin(m, link) ==
  IF m = "best_sellers" THEN ExtractAsinBS(link) ELSE ExtractAsinMS(link)

(***************************************************************************)
(* parse_category_levels                                                   *)
(***************************************************************************)
\* the character class of the split pattern: > / | , and the two angle
\* quotation marks U+203A and U+00BB, written here "rsaquo" and "raquo"
DelimChars == {">", "/", "rsaquo", "raquo", "|", ","}

DashDelim == <<" ", "-", " ">>

AmpDelim == <<" ", "&", " ">>

\* re.search(r"in\s+(.*)", s, flags=re.IGNORECASE): the positions where
\* "in" and one white-space character follow each other
InMatches(s) ==
  {i \in 1..Len(s) :
     /\ i + 2 <= Len(s)
     /\ LowerChar(s[i]) = "i"
     /\ LowerChar(s[i + 1]) = "n"
     /\ IsSpace(s[i + 2])}

\* group(1) of the leftmost match: \s+ takes all the white space, (.*) the
\* rest of the line
InGroup(s) == DotStar(LStrip(Drop(s, Min(InMatches(s)) + 1)))

\* re.split(r"[...]| - | & ", s), cur being the segment read so far
RECURSIVE SplitFrom(_, _)
SplitFrom(s, cur) ==
  IF s = <<>> THEN <<cur>>
  ELSE IF Head(s) \in DelimChars THEN <<cur>> \o SplitFrom(Tail(s), <<>>)
  ELSE IF StartsWith(s, DashDelim) \/ StartsWith(s, AmpDelim)
    THEN <<cur>> \o SplitFrom(Drop(s, 3), <<>>)
  ELSE SplitFrom(Tail(s), Append(cur, Head(s)))

Split(s) == SplitFrom(s, <<>>)

\* [p.strip() for p in parts if p and p.strip()]
RECURSIVE PartsBS(_)
PartsBS(parts) ==
  IF parts = <<>> THEN <<>>
  ELSE IF Head(parts) # <<>> /\ Strip(Head(parts)) # <<>>
    THEN <<Strip(Head(parts))>> \o PartsBS(Tail(parts))
  ELSE PartsBS(Tail(parts))

\* [p.strip() for p in parts if p]
RECURSIVE PartsMS(_)
PartsMS(parts) ==
  IF parts = <<>> THEN <<>>
  ELSE IF Head(parts) # <<>>
    THEN <<Strip(Head(parts))>> \o PartsMS(Tail(parts))
  ELSE PartsMS(Tail(parts))

NoCategory == [category_full |-> None, cat_level_1 |-> None, cat_level_2 |-> None]

Levels(cat_full, parts) ==
  [category_full |-> Some(cat_full),
   cat_level_1 |-> IF Len(parts) >= 1 THEN Some(parts[1]) ELSE None,
   cat_level_2 |-> IF Len(parts) >= 2 THEN Some(parts[2]) ELSE None]

\* transform_best_sellers.parse_category_levels
ParseCategoryLevelsBS(cat) ==
  IF cat.none THEN NoCategory
  ELSE LET cat_full == IF InMatches(cat.s) # {} THEN Strip(InGroup(cat.s))
                       ELSE Strip(cat.s)
       IN  Levels(cat_full, PartsBS(Split(cat_full)))

\* transform_movers_shakers.parse_category_levels
ParseCategoryLevelsMS(cat) ==
  IF cat.none \/ Strip(cat.s) = <<>> THEN NoCategory
  ELSE LET cat_full == IF InMatches(cat.s) # {} THEN Strip(InGroup(cat.s))
                       ELSE Strip(cat.s)
       IN  Levels(cat_full, PartsMS(Split(cat_full)))

ParseCategoryLevels(m, cat) ==
  IF m = "best_sellers" THEN ParseCategoryLevelsBS(cat)
  ELSE ParseCategoryLevelsMS(cat)

(***************************************************************************)
(* The header-to-canonical mapping of transform (the colmap loop).         *)
(***************************************************************************)
W_page == <<"p","a","g","e">>

W_rank == <<"r","a","n","k">>

W_sales == <<"s","a","l","e","s">>

W_category == <<"c","a","t","e","g","o","r","y">>

W_title == <<"t","i","t","l","e">>

W_link == <<"l","i","n","k">>

W_url == <<"u","r","l">>

W_rating == <<"r","a","t","i","n","g">>

W_review == <<"r","e","v","i","e","w">>

W_price == <<"p","r","i","c","e">>

W_move == <<"m","o","v","e">>

W_sales_rank_now == <<"s","a","l","e","s","_","r","a","n","k","_","n","o","w">>

W_rank_now == <<"r","a","n","k"," ","n","o","w">>

W_sales_rank_was == <<"s","a","l","e","s","_","r","a","n","k","_","w","a","s">>

W_rank_was == <<"r","a","n","k"," ","w","a","s">>

\* a header that no branch of the loop enters gets no colmap entry
NoField == "-"

\* transform_best_sellers: the if/elif chain on lc = c.lower()
ColmapBS(c) ==
  LET lc == Lower(c)
  IN  IF Contains(lc, W_rank) THEN "rank"
      ELSE IF lc = W_page THEN "page"
      ELSE IF Contains(lc, W_category) THEN "category"
      ELSE IF Contains(lc, W_title) THEN "title"
      ELSE IF Contains(lc, W_link) \/ Contains(lc, W_url) THEN "link"
      ELSE IF Contains(lc, W_rating) THEN "rating_raw"
      ELSE IF Contains(lc, W_review) THEN "review_count_raw"
      ELSE IF Contains(lc, W_price) THEN "price_raw"
      ELSE NoField

\* a variant whose rank rule is the best-sellers one (any header with "rank")
ColmapMSRankAnywhere(c) ==
  LET lc == Lower(c)
  IN  IF lc = W_page THEN "page"
      ELSE IF Contains(lc, W_rank) THEN "rank"
      ELSE IF Contains(lc, W_category) THEN "category"
      ELSE IF Contains(lc, W_title) THEN "title"
      ELSE IF Contains(lc, W_link) \/ Contains(lc, W_url) THEN "link"
      ELSE IF Contains(lc, W_rating) THEN "rating_raw"
      ELSE IF Contains(lc, W_review) THEN "review_count_raw"
      ELSE IF Contains(lc, W_price) /\ ~Contains(lc, W_move) THEN "price_raw"
      ELSE IF Contains(lc, W_move) THEN "move_pct_raw"
      ELSE IF Contains(lc, W_sales_rank_now) \/ Contains(lc, W_rank_now)
        THEN "sales_rank_now_raw"
      ELSE IF Contains(lc, W_sales_rank_was) \/ Contains(lc, W_rank_was)
        THEN "sales_rank_was_raw"
      ELSE NoField

\* transform_movers_shakers: the if/elif chain on lc = c.lower()
ColmapMS(c) ==
  LET lc == Lower(c)
  IN  IF lc = W_page THEN "page"
      ELSE IF StartsWith(lc, W_rank) /\ ~Contains(lc, W_sales) THEN "rank"
      ELSE IF Contains(lc, W_category) THEN "category"
      ELSE IF Contains(lc, W_title) THEN "title"
      ELSE IF Contains(lc, W_link) \/ Contains(lc, W_url) THEN "link"
      ELSE IF Contains(lc, W_rating) THEN "rating_raw"
      ELSE IF Contains(lc, W_review) THEN "review_count_raw"
      ELSE IF Contains(lc, W_price) /\ ~Contains(lc, W_move) THEN "price_raw"
      ELSE IF Contains(lc, W_move) THEN "move_pct_raw"
      ELSE IF Contains(lc, W_sales_rank_now) \/ Contains(lc, W_rank_now)
        THEN "sales_rank_now_raw"
      ELSE IF Contains(lc, W_sales_rank_was) \/ Contains(lc, W_rank_was)
        THEN "sales_rank_was_raw"
      ELSE NoField

\* the entry of colmap for the header c, already stripped by
\* df.columns = [c.strip() for c in df.columns]
Colmap(m, c) == IF m = "best_sellers" THEN ColmapBS(c) ELSE ColmapMS(c)

(***************************************************************************)
(* Numbers.  A float is the rational n/d (d > 0, lowest terms) or NaN; an   *)
(* int is n/1.                                                             *)
(***************************************************************************)
NaN == [nan |-> TRUE, n |-> 0, d |-> 1]

RECURSIVE GCD(_, _)
GCD(a, b) == IF b = 0 THEN a ELSE GCD(b, a % b)

\* n/d in lowest terms, d > 0
Num(n, d) ==
  LET g == GCD(IF n < 0 THEN -n ELSE n, d)
  IN  [nan |-> FALSE, n |-> n \div g, d |-> d \div g]

\* a == b, a <= b, a < b on two numbers that are not NaN
REq(a, b) == a.n * b.d = b.n * a.d

RLe(a, b) == a.n * b.d <= b.n * a.d

RSub(a, b) == Num(a.n * b.d - b.n * a.d, a.d * b.d)

RAdd(a, b) == Num(a.n * b.d + b.n * a.d, a.d * b.d)

\* a / b, b not zero
RDiv(a, b) ==
  IF b.n > 0 THEN Num(a.n * b.d, a.d * b.n) ELSE Num(-(a.n * b.d), -(a.d * b.n))

RECURSIVE Pow10(_)
Pow10(k) == IF k = 0 THEN 1 ELSE 10 * Pow10(k - 1)

RECURSIVE DigitsVal(_)
DigitsVal(s) ==
  IF s = <<>> THEN 0
  ELSE 10 * DigitsVal(Take(s, Len(s) - 1)) + DigitVal(s[Len(s)])

AllDigits(s) == \A i \in DOMAIN s : IsDigit(s[i])

\* the digits s starts with
RECURSIVE DigitRun(_)
DigitRun(s) ==
  IF s # <<>> /\ IsDigit(Head(s)) THEN <<Head(s)>> \o DigitRun(Tail(s))
  ELSE <<>>

Unsigned(t) == IF t # <<>> /\ Head(t) \in {"+", "-"} THEN Tail(t) ELSE t

Signed(t, v) == IF t # <<>> /\ Head(t) = "-" THEN Num(-v.n, v.d) ELSE v

\* int(t) of a stripped text: an optional sign and decimal digits, or a
\* ValueError (NaN here, every caller catching it)
PyInt(t) ==
  IF Unsigned(t) # <<>> /\ AllDigits(Unsigned(t))
    THEN Signed(t, Num(DigitsVal(Unsigned(t)), 1))
  ELSE NaN

\* float(t) of a text of digits, "." and signs: an optional sign, digits with
\* at most one ".", at least one digit; anything else is a ValueError
PyFloat(t) ==
  LET u == Unsigned(t)
      ip == DigitRun(u)
      rest == Drop(u, Len(ip))
      fp == IF rest # <<>> /\ Head(rest) = "." THEN Tail(rest) ELSE <<>>
      wellFormed ==
        /\ rest = <<>> \/ Head(rest) = "."
        /\ AllDigits(fp)
        /\ Len(ip) + Len(fp) > 0
  IN  IF wellFormed THEN Signed(t, Num(DigitsVal(ip \o fp), Pow10(Len(fp))))
      ELSE NaN

(***************************************************************************)
(* The field parsers.  An argument with .none set is a value that is not   *)
(* a str (None, NaN).                                                      *)
(***************************************************************************)
\* transform_best_sellers.parse_int
ParseIntBS(s) ==
  IF s.none \/ s.s = <<>> THEN NaN
  ELSE PyInt(Strip(Filter(s.s, {c \in Range(s.s) : c # ","})))

\* transform_movers_shakers.parse_int
ParseIntMS(s) ==
  IF s.none \/ Strip(s.s) = <<>> THEN NaN
  ELSE PyInt(Filter(s.s, Range(DigitSeq)))

ParseInt(m, s) == IF m = "best_sellers" THEN ParseIntBS(s) ELSE ParseIntMS(s)

\* transform_movers_shakers.parse_float
ParseFloat(s) ==
  IF s.none \/ Strip(s.s) = <<>> THEN NaN
  ELSE PyFloat(Filter(s.s, Range(DigitSeq) \cup {".", "-"}))

\* the positions where r"(\d+\.\d+)" matches
RatingMatches(s) ==
  {i \in 1..Len(s) :
     LET a == DigitRun(Drop(s, i - 1))
     IN  /\ a # <<>>
         /\ i + Len(a) + 1 <= Len(s)
         /\ s[i + Len(a)] = "."
         /\ IsDigit(s[i + Len(a) + 1])}

\* float(m.group(1)) of the leftmost match
RatingGroup(s) ==
  LET i == Min(RatingMatches(s))
      a == DigitRun(Drop(s, i - 1))
      b == DigitRun(Drop(s, i + Len(a)))
  IN  PyFloat(a \o <<".">> \o b)

\* parse_rating (the two variants differ only in how they test for a blank)
ParseRating(r) ==
  IF r.none \/ Strip(r.s) = <<>> THEN NaN
  ELSE IF RatingMatches(r.s) # {} THEN RatingGroup(r.s)
  ELSE NaN

\* re.sub(r"\(.*?\)", "", s): each "(" up to the nearest ")" of its line
RECURSIVE RemoveParens(_)
RemoveParens(s) ==
  IF s = <<>> THEN <<>>
  ELSE LET inside == DotStar(Tail(s))
           closes == {k \in DOMAIN inside : inside[k] = ")"}
       IN  IF Head(s) = "(" /\ closes # {}
             THEN RemoveParens(Drop(s, Min(closes) + 1))
           ELSE <<Head(s)>> \o RemoveParens(Tail(s))

NoiseWords ==
  << <<"c","o","n","v","e","r","t","e","d">>, <<"a","p","p","r","o","x">>,
     <<"u","s","d">>, <<"u","s","$">>, <<"f","r","o","m">>,
     <<"p","r","i","c","e">>, <<"n","o","w">>, <<"o","n","l","y">> >>

\* re.sub(r"(converted|approx|usd|us\$|from|price|now|only)", "", s)
RECURSIVE RemoveNoise(_)
RemoveNoise(s) ==
  IF s = <<>> THEN <<>>
  ELSE LET hits == {k \in DOMAIN NoiseWords : StartsWith(Lower(s), NoiseWords[k])}
       IN  IF hits # {} THEN RemoveNoise(Drop(s, Len(NoiseWords[Min(hits)])))
           ELSE <<Head(s)>> \o RemoveNoise(Tail(s))

\* [^0-9\.,-] is what parse_price deletes
PriceChars == Range(DigitSeq) \cup {".", ",", "-"}

\* re.findall(r"\d+\.\d+|\d+", s)
RECURSIVE NumberTokens(_)
NumberTokens(s) ==
  IF s = <<>> THEN <<>>
  ELSE IF ~IsDigit(Head(s)) THEN NumberTokens(Tail(s))
  ELSE LET a == DigitRun(s)
           rest == Drop(s, Len(a))
           b == IF rest # <<>> /\ Head(rest) = "." THEN DigitRun(Tail(rest))
                ELSE <<>>
       IN  IF b # <<>>
             THEN <<a \o <<".">> \o b>> \o NumberTokens(Drop(rest, Len(b) + 1))
           ELSE <<a>> \o NumberTokens(rest)

W_nan == <<"n","a","n">>

W_n_a == <<"n","/","a">>

W_none == <<"n","o","n","e">>

\* transform_best_sellers.parse_price: both branches of the comma heuristic
\* delete the commas
ParsePriceBS(p) ==
  IF p.none \/ p.s = <<>> \/ Lower(p.s) \in {W_nan, W_n_a, W_none} THEN NaN
  ELSE LET s1 == RemoveParens(p.s)
           s2 == Strip(Filter(s1, PriceChars))
           s3 == Filter(s2, PriceChars \ {","})
       IN  PyFloat(s3)

\* transform_movers_shakers.parse_price
ParsePriceMS(p) ==
  IF p.none \/ Strip(p.s) = <<>> THEN NaN
  ELSE LET s0 == Strip(Lower(p.s))
           s1 == RemoveNoise(RemoveParens(s0))
           s2 == Filter(s1, PriceChars)
           s3 == Filter(s2, PriceChars \ {","})
           m == NumberTokens(s3)
       IN  IF m = <<>> THEN NaN ELSE PyFloat(m[Len(m)])

ParsePrice(m, p) ==
  IF m = "best_sellers" THEN ParsePriceBS(p) ELSE ParsePriceMS(p)

(***************************************************************************)
(* The data frame: a sequence of named columns, each a sequence with one   *)
(* value per row.  Two columns may carry the same name.                    *)
(***************************************************************************)
Column(name, vals) == [name |-> name, vals |-> vals]

Cols(d, name) == {k \in DOMAIN d : d[k].name = name}

Has(d, name) == Cols(d, name) # {}

\* df[name] is a Series exactly when one column carries the name
Unique(d, name) == Cardinality(Cols(d, name)) = 1

Col(d, name) == d[CHOOSE k \in Cols(d, name) : TRUE].vals

\* df[name] = vals
SetCol(d, name, vals) ==
  IF Has(d, name)
    THEN [k \in DOMAIN d |-> IF d[k].name = name THEN Column(name, vals) ELSE d[k]]
  ELSE Append(d, Column(name, vals))

NRows == Len(cells)

Rows == 1..NRows

(***************************************************************************)
(* transform, step 1: strip the headers, build colmap, rename.             *)
(***************************************************************************)
\* df.rename(columns=colmap): colmap is keyed by the header, so every header
\* with an entry is renamed; a header without one keeps its name, which no
\* later step reads (NoField stands for it)
Renamed(m, hdrs) == [k \in DOMAIN hdrs |-> Colmap(m, Strip(hdrs[k]))]

MapColumns ==
  /\ pc = "rename"
  /\ df' = [k \in DOMAIN headers |->
              Column(Renamed(mode, headers)[k], [i \in Rows |-> cells[i][k]])]
  /\ pc' = "parse"
  /\ UNCHANGED <<mode, arg, ret, headers, cells, zero_div, out>>

(***************************************************************************)
(* transform, step 2: the field parsers, row by row.                       *)
(***************************************************************************)
\* the raw columns the parsing statements read
ParsedFrom(m) ==
  IF m = "best_sellers"
    THEN {"rank", "link", "price_raw", "rating_raw", "review_count_raw"}
  ELSE {"rank", "link", "price_raw", "rating_raw", "review_count_raw",
        "move_pct_raw", "sales_rank_now_raw", "sales_rank_was_raw"}

\* Series.apply(f) is written [i \in Rows |-> f(Some(column[i]))]: every cell
\* of an input column is a str
ParseFieldsBS(d) ==
  LET d1 == SetCol(d, "rank", [i \in Rows |-> ParseIntBS(Some(Col(d, "rank")[i]))])
      d2 == SetCol(d1, "asin", [i \in Rows |-> ExtractAsinBS(Some(Col(d, "link")[i]))])
      d3 == SetCol(d2, "price_norm", [i \in Rows |-> ParsePriceBS(Some(Col(d, "price_raw")[i]))])
      d4 == SetCol(d3, "rating", [i \in Rows |-> ParseRating(Some(Col(d, "rating_raw")[i]))])
  IN  SetCol(d4, "review_count", [i \in Rows |-> ParseIntBS(Some(Col(d, "review_count_raw")[i]))])

\* the pd.to_numeric(errors="coerce") that follows leaves the floats and NaN
\* of parse_float as they are
ParseFieldsMS(d) ==
  LET d1 == SetCol(d, "rank", [i \in Rows |-> ParseIntMS(Some(Col(d, "rank")[i]))])
      d2 == SetCol(d1, "asin", [i \in Rows |-> ExtractAsinMS(Some(Col(d, "link")[i]))])
      d3 == SetCol(d2, "price_norm", [i \in Rows |-> ParsePriceMS(Some(Col(d, "price_raw")[i]))])
      d4 == SetCol(d3, "rating", [i \in Rows |-> ParseRating(Some(Col(d, "rating_raw")[i]))])
      d5 == SetCol(d4, "review_count", [i \in Rows |-> ParseIntMS(Some(Col(d, "review_count_raw")[i]))])
      d6 == SetCol(d5, "move_pct", [i \in Rows |-> ParseFloat(Some(Col(d, "move_pct_raw")[i]))])
      d7 == SetCol(d6, "sales_rank_now", [i \in Rows |-> ParseFloat(Some(Col(d, "sales_rank_now_raw")[i]))])
  IN  SetCol(d7, "sales_rank_was", [i \in Rows |-> ParseFloat(Some(Col(d, "sales_rank_was_raw")[i]))])

\* A column that is absent makes the statement raise: best-sellers calls
\* .apply on what df.get returns (None, or the default ""), movers-shakers
\* indexes df[...] (KeyError).  A name carried by two columns selects a
\* DataFrame, whose column-wise .apply result cannot be assigned to the
\* frame (or raises in the parser itself): the statement raises as well.
ParseFields ==
  /\ pc = "parse"
  /\ IF \A f \in ParsedFrom(mode) : Unique(df, f)
       THEN /\ df' = IF mode = "best_sellers" THEN ParseFieldsBS(df)
                     ELSE ParseFieldsMS(df)
            /\ pc' = "category"
     ELSE /\ df' = df
          /\ pc' = "raised"
  /\ UNCHANGED <<mode, arg, ret, headers, cells, zero_div, out>>

(***************************************************************************)
(* transform, step 3: the category columns.                                *)
(***************************************************************************)
SCRAPED_AT == <<"2","0","2","5","-","1","0","-","2","5">>

Constant(v) == [i \in Rows |-> v]

\* cats = ...apply(parse_category_levels).apply(pd.Series);
\* df = pd.concat([df, cats], axis=1): three columns, aligned on the row index
ConcatCategories(m, d) ==
  LET cats == [i \in Rows |-> ParseCategoryLevels(m, Some(Col(d, "category")[i]))]
      d1 == Append(d, Column("category_full", [i \in Rows |-> cats[i].category_full]))
      d2 == Append(d1, Column("cat_level_1", [i \in Rows |-> cats[i].cat_level_1]))
  IN  Append(d2, Column("cat_level_2", [i \in Rows |-> cats[i].cat_level_2]))

\* best-sellers sets scraped_at right after the concatenation
Decompose ==
  /\ pc = "category"
  /\ IF Unique(df, "category")
       THEN /\ df' = IF mode = "best_sellers"
                       THEN SetCol(ConcatCategories(mode, df), "scraped_at",
                                   Constant(SCRAPED_AT))
                     ELSE ConcatCategories(mode, df)
            /\ pc' = IF mode = "best_sellers" THEN "density" ELSE "delta"
     ELSE /\ df' = df
          /\ pc' = "raised"
  /\ UNCHANGED <<mode, arg, ret, headers, cells, zero_div, out>>

(***************************************************************************)
(* transform (movers-shakers), step 4: the rank delta and its direction.   *)
(***************************************************************************)
\* a variant with the operands exchanged
RankChangeSwapped(was, now) ==
  IF ~was.nan /\ ~now.nan THEN RSub(now, was) ELSE NaN

\* the lambda of sales_rank_change
RankChange(was, now) ==
  IF ~was.nan /\ ~now.nan THEN RSub(was, now) ELSE NaN

\* Series.abs()
Abs(x) == IF x.nan THEN NaN ELSE Num(IF x.n < 0 THEN -x.n ELSE x.n, x.d)

\* direction(x); None is written "None"
Direction(x) ==
  IF x.nan THEN "None"
  ELSE IF x.n > 0 THEN "up"
  ELSE IF x.n < 0 THEN "down"
  ELSE "no_change"

RankDelta ==
  /\ pc = "delta"
  /\ LET change == [i \in Rows |-> RankChange(Col(df, "sales_rank_was")[i],
                                              Col(df, "sales_rank_now")[i])]
         d1 == SetCol(df, "sales_rank_change", change)
         d2 == SetCol(d1, "sales_rank_change_abs", [i \in Rows |-> Abs(change[i])])
     IN  df' = SetCol(d2, "move_direction", [i \in Rows |-> Direction(change[i])])
  /\ pc' = "density"
  /\ UNCHANGED <<mode, arg, ret, headers, cells, zero_div, out>>

(***************************************************************************)
(* transform, step 5: review_density.                                      *)
(***************************************************************************)
\* the lambda of review_density
ReviewDensity(review_count, rank) ==
  IF ~review_count.nan /\ ~rank.nan /\ rank.n > 0 THEN RDiv(review_count, rank)
  ELSE NaN

Density ==
  /\ pc = "density"
  /\ df' = SetCol(df, "review_density",
                  [i \in Rows |-> ReviewDensity(Col(df, "review_count")[i],
                                                Col(df, "rank")[i])])
  /\ pc' = "normalize"
  /\ UNCHANGED <<mode, arg, ret, headers, cells, zero_div, out>>

(***************************************************************************)
(* transform, step 6: norm_review_density, min-max within each group of    *)
(* df.groupby("cat_level_1", dropna=False).                                *)
(***************************************************************************)
\* a variant that takes the whole frame as one group
WholeFrame(d, i) == Rows

\* the row index of the group of row i; the rows without a cat_level_1 form
\* one group
Group(d, i) == {j \in Rows : Col(d, "cat_level_1")[j] = Col(d, "cat_level_1")[i]}

Groups(d) == {Group(d, i) : i \in Rows}

\* the rows of g whose value is not NaN: what dropna() keeps
Present(vals, g) == {j \in g : ~vals[j].nan}

\* Series.min(), Series.max(): NaN is skipped
RMin(vals, g) ==
  vals[CHOOSE j \in Present(vals, g) : \A k \in Present(vals, g) : RLe(vals[j], vals[k])]

RMax(vals, g) ==
  vals[CHOOSE j \in Present(vals, g) : \A k \in Present(vals, g) : RLe(vals[k], vals[j])]

Zero == Num(0, 1)

\* (vals - mn) / (mx - mn) at one row: NaN stays NaN, and 0.0 / 0.0 is NaN
MinMax(v, mn, mx) ==
  IF v.nan \/ REq(mn, mx) THEN NaN ELSE RDiv(RSub(v, mn), RSub(mx, mn))

\* best-sellers: a group without any density is skipped (continue) and keeps
\* the NaN the column was created with; mn == mx assigns 0.0 to the group
NormBS(rd, g, i) ==
  IF Present(rd, g) = {} THEN NaN
  ELSE IF REq(RMin(rd, g), RMax(rd, g)) THEN Zero
  ELSE MinMax(rd[i], RMin(rd, g), RMax(rd, g))

\* movers-shakers: fewer than two densities assigns 0.0 to the group;
\* otherwise the division is made whatever mx - mn is
NormMS(rd, g, i) ==
  IF Cardinality(Present(rd, g)) < 2 THEN Zero
  ELSE MinMax(rd[i], RMin(rd, g), RMax(rd, g))

NormColumn(m, d) ==
  LET rd == Col(d, "review_density")
  IN  [i \in Rows |-> IF m = "best_sellers" THEN NormBS(rd, Group(d, i), i)
                      ELSE NormMS(rd, Group(d, i), i)]

\* whether the loop evaluates a division by mx - mn = 0: best-sellers tests
\* mn == mx before it divides, movers-shakers only counts the densities
DividesByZero(m, d) ==
  LET rd == Col(d, "review_density")
  IN  /\ m = "movers_shakers"
      /\ \E g \in Groups(d) :
           /\ Cardinality(Present(rd, g)) >= 2
           /\ REq(RMin(rd, g), RMax(rd, g))

Normalize ==
  /\ pc = "normalize"
  /\ df' = SetCol(df, "norm_review_density", NormColumn(mode, df))
  /\ zero_div' = DividesByZero(mode, df)
  /\ pc' = "segment"
  /\ UNCHANGED <<mode, arg, ret, headers, cells, out>>

(***************************************************************************)
(* transform, step 7: price_segment_by_category.                           *)
(***************************************************************************)
\* q_low = 0.25, q_high = 0.75, in hundredths
Q_LOW == 25

Q_HIGH == 75

Hundred == 100

\* the values of the rows S in ascending order
RECURSIVE Sorted(_, _)
Sorted(vals, S) ==
  IF S = {} THEN <<>>
  ELSE LET j == CHOOSE j \in S : \A k \in S : RLe(vals[j], vals[k])
       IN  <<vals[j]>> \o Sorted(vals, S \ {j})

\* Series.quantile(q), q = pct / 100: linear interpolation between the two
\* order statistics around the position (n - 1) * q; NaN is left out
Quantile(vals, g, pct) ==
  LET v == Sorted(vals, Present(vals, g))
      pos == (Len(v) - 1) * pct
      lo == pos \div Hundred
      r == pos % Hundred
  IN  IF r = 0 THEN v[lo + 1]
      ELSE RAdd(v[lo + 1],
                Num(RSub(v[lo + 2], v[lo + 1]).n * r,
                    RSub(v[lo + 2], v[lo + 1]).d * Hundred))

\* seg(series) at row i of the group g
Seg(price, g, i) ==
  IF Present(price, g) = {} THEN "unknown"
  ELSE IF price[i].nan THEN "unknown"
  ELSE IF RLe(price[i], Quantile(price, g, Q_LOW)) THEN "Low"
  ELSE IF RLe(price[i], Quantile(price, g, Q_HIGH)) THEN "Mid"
  ELSE "High"

\* the rows S, group after group (groups by first row), each group in row order
RECURSIVE ByGroup(_, _)
ByGroup(d, S) ==
  IF S = {} THEN <<>>
  ELSE LET first(j) == Min(Group(d, j))
           j == CHOOSE j \in S : \A k \in S :
                  first(j) < first(k) \/ (first(j) = first(k) /\ j <= k)
       IN  <<j>> \o ByGroup(d, S \ {j})

\* a variant that writes the groups' segments one after the other, by
\* position and not by row index
SegmentColumnByPosition(d) ==
  [i \in Rows |-> Seg(Col(d, "price_norm"), Group(d, ByGroup(d, Rows)[i]),
                      ByGroup(d, Rows)[i])]

\* the loop over the groups writes each group's segments at the group's own
\* row index
SegmentColumn(d) ==
  [i \in Rows |-> Seg(Col(d, "price_norm"), Group(d, i), i)]

Segment ==
  /\ pc = "segment"
  /\ df' = SetCol(df, "price_segment", SegmentColumn(df))
  /\ pc' = "project"
  /\ UNCHANGED <<mode, arg, ret, headers, cells, zero_div, out>>

(***************************************************************************)
(* transform, step 8: the projection on the output columns.                *)
(***************************************************************************)
KeepBS ==
  <<"rank", "page", "category", "category_full", "cat_level_1", "cat_level_2",
    "title", "asin", "link", "rating", "review_count", "price_raw",
    "price_norm", "price_segment", "review_density", "norm_review_density",
    "scraped_at">>

KeepMS ==
  <<"rank", "page", "category", "category_full", "cat_level_1", "cat_level_2",
    "title", "asin", "link", "rating", "review_count", "price_raw",
    "price_norm", "price_segment", "move_pct", "sales_rank_now",
    "sales_rank_was", "sales_rank_change", "sales_rank_change_abs",
    "move_direction", "review_density", "norm_review_density", "scraped_at">>

\* df[keep]: the columns named in keep, in the order of keep
RECURSIVE Select(_, _)
Select(d, keep) ==
  IF keep = <<>> THEN <<>>
  ELSE SelectSeq(d, LAMBDA c : c.name = Head(keep)) \o Select(d, Tail(keep))

\* the rows of a frame: row i holds the i-th value of every column
RowsOf(d) ==
  [i \in Rows |-> [k \in DOMAIN d |-> [name |-> d[k].name, val |-> d[k].vals[i]]]]

\* best-sellers filters keep_cols by presence; movers-shakers sets scraped_at
\* and indexes df[keep], a KeyError when a name of keep is no column
Project ==
  /\ pc = "project"
  /\ IF mode = "best_sellers"
       THEN /\ out' = RowsOf(Select(df, KeepBS))
            /\ df' = df
            /\ pc' = "done"
     ELSE LET d1 == SetCol(df, "scraped_at", Constant(SCRAPED_AT))
          IN  /\ df' = d1
              /\ IF \A k \in DOMAIN KeepMS : Has(d1, KeepMS[k])
                   THEN out' = RowsOf(Select(d1, KeepMS)) /\ pc' = "done"
                 ELSE out' = out /\ pc' = "raised"
  /\ UNCHANGED <<mode, arg, ret, headers, cells, zero_div>>

Next ==
  \/ MapColumns
  \/ ParseFields
  \/ Decompose
  \/ RankDelta
  \/ Density
  \/ Normalize
  \/ Segment
  \/ Project

(***************************************************************************)
(* Inputs of the functions checked on their own: texts put together from   *)
(* a few fragments.                                                        *)
(***************************************************************************)
RECURSIVE Flatten(_)
Flatten(ss) == IF ss = <<>> THEN <<>> ELSE Head(ss) \o Flatten(Tail(ss))

\* every text made of at most n fragments
Texts(frags, n) == {Flatten(fs) : fs \in UNION {[1..k -> frags] : k \in 0..n}}

MaxLinkFrags == 4

MaxCatFrags == 4

MaxHeaderFrags == 3

IdA == <<"B","0","0","0","0","0","0","0","0","1">>

IdB == <<"A","1","B","2","C","3","D","4","E","5">>

IdLower == <<"b","0","7","x","y","z","1","2","3","4">>

LinkFrags == {DpMarker, GpMarker, IdA, IdB, IdLower, <<"/">>, <<"X","9">>}

LinkInputs == {None} \cup {Some(t) : t \in Texts(LinkFrags, MaxLinkFrags)}

CatFrags ==
  {<<"i","n"," ">>, <<"I","N"," ">>, <<"A">>, <<"B">>, <<",">>, <<" ">>,
   AmpDelim, <<">">>}

CatInputs == {None} \cup {Some(t) : t \in Texts(CatFrags, MaxCatFrags)}

HeaderFrags ==
  {<<"S","a","l","e","s","_">>, <<"R","a","n","k">>, <<"_","N","o","w">>,
   <<"_","W","a","s">>, W_rank, <<" ","n","o","w">>, <<" ","w","a","s">>,
   W_page, <<"P","r","i","c","e">>, W_move, W_review, W_url, <<"s">>}

\* header names as transform sees them after the strip of line 1 of transform
HeaderInputs == {Strip(t) : t \in Texts(HeaderFrags, MaxHeaderFrags)}

(***************************************************************************)
(* Input datasets: a header row and the cells of each row, all text.       *)
(***************************************************************************)
MaxRows == 3

MaxDropped == 2

H_reviews == <<"r","e","v","i","e","w","s">>

H_move_pct == <<"m","o","v","e","_","p","c","t">>

H_Sales_Rank_Now == <<"S","a","l","e","s","_","R","a","n","k","_","N","o","w">>

H_Sales_Rank_Was == <<"S","a","l","e","s","_","R","a","n","k","_","W","a","s">>

H_Rank2 == <<"R","a","n","k","2">>

H_product_url == <<"p","r","o","d","u","c","t","_","u","r","l">>

StdHeaders(m) ==
  IF m = "best_sellers"
    THEN <<W_rank, W_page, W_category, W_title, W_link, W_rating, H_reviews,
           W_price>>
  ELSE <<W_rank, W_page, W_category, W_title, W_link, W_rating, H_reviews,
         W_price, H_move_pct, H_Sales_Rank_Now, H_Sales_Rank_Was>>

CatA == <<"i","n"," ","A">>

CatB == <<"B","o","o","k","s"," ","&"," ","M","o","r","e">>

BaseRow ==
  [rank |-> <<"1">>, page |-> <<"1">>, category |-> CatA, title |-> <<"T">>,
   link |-> DpMarker \o IdA \o <<"/">>, rating |-> <<"4",".","5">>,
   reviews |-> <<"2">>, price |-> <<"$","5">>, move |-> <<"1","2","%">>,
   now |-> <<"5">>, was |-> <<"1","2">>]

\* the cell of row number i under the header h
CellOf(h, row, i) ==
  CASE h = W_rank -> row.rank
    [] h = W_page -> row.page
    [] h = W_category -> row.category
    [] h = W_title -> row.title \o <<DigitSeq[i + 1]>>
    [] h = W_link -> row.link
    [] h = W_rating -> row.rating
    [] h = H_reviews -> row.reviews
    [] h = W_price -> row.price
    [] h = H_move_pct -> row.move
    [] h = H_Sales_Rank_Now -> row.now
    [] h = H_Sales_Rank_Was -> row.was
    [] h = H_Rank2 -> <<"9">>
    [] h = H_product_url -> DpMarker \o IdB
    [] OTHER -> <<>>

MakeCells(hdrs, rows) ==
  [i \in DOMAIN rows |-> [k \in DOMAIN hdrs |-> CellOf(hdrs[k], rows[i], i)]]

RowSeqs(S) == UNION {[1..n -> S] : n \in 1..MaxRows}

\* rows for the density columns: two groups (A and no category), densities
\* 2, 2, 4 and three ways of having none
DensityRows ==
  {[BaseRow EXCEPT !.category = c, !.rank = p[1], !.reviews = p[2]] :
     c \in {CatA, <<>>},
     p \in {<< <<"1">>, <<"2">> >>, << <<"2">>, <<"4">> >>,
            << <<"1">>, <<"4">> >>, << <<"1">>, <<>> >>, << <<"0">>, <<"4">> >>}}

\* rows for the price column
PriceRows ==
  {[BaseRow EXCEPT !.category = c, !.price = p] :
     c \in {CatA, CatB},
     p \in {<<"$","5">>, <<"$","1","0">>, <<"$","2","0",".","5","0">>, <<>>}}

\* rows for the sales-rank columns
RankRows ==
  {[BaseRow EXCEPT !.now = n, !.was = w] :
     n \in {<<"5">>, <<"1","2">>, <<>>},
     w \in {<<"#","5">>, <<"1","2">>, <<"n","/","a">>}}

InitDataset(modes, rowset) ==
  /\ mode \in modes
  /\ pc = "rename"
  /\ arg = <<>>
  /\ ret = <<>>
  /\ headers = StdHeaders(mode)
  /\ cells \in {MakeCells(StdHeaders(mode), rs) : rs \in RowSeqs(rowset)}
  /\ df = <<>>
  /\ zero_div = FALSE
  /\ out = <<>>

InitDensity == InitDataset(Modes, DensityRows)

InitSegment == InitDataset(Modes, PriceRows)

InitDelta == InitDataset({"movers_shakers"}, RankRows)

SpecDensity == InitDensity /\ [][Next]_vars

SpecSegment == InitSegment /\ [][Next]_vars

SpecDelta == InitDelta /\ [][Next]_vars

\* header rows: the usual headers without at most MaxDropped of them, and
\* possibly one more header that matches a rule a usual header matches too
ExtraHeaders == {H_Rank2, H_product_url}

RECURSIVE Without(_, _, _)
Without(hdrs, dropped, k) ==
  IF k > Len(hdrs) THEN <<>>
  ELSE (IF k \in dropped THEN <<>> ELSE <<hdrs[k]>>) \o Without(hdrs, dropped, k + 1)

HeaderRows(m) ==
  LET std == StdHeaders(m)
      kept == {Without(std, D, 1) :
                 D \in {D \in SUBSET DOMAIN std : Cardinality(D) <= MaxDropped}}
  IN  kept \cup {<<e>> \o h : e \in ExtraHeaders, h \in kept}
           \cup {h \o <<e>> : e \in ExtraHeaders, h \in kept}

FixedRows ==
  <<BaseRow, [BaseRow EXCEPT !.price = <<"$","1","0">>, !.reviews = <<"4">>]>>

InitHeaders ==
  /\ mode \in Modes
  /\ pc = "rename"
  /\ arg = <<>>
  /\ ret = <<>>
  /\ headers \in HeaderRows(mode)
  /\ cells = MakeCells(headers, FixedRows)
  /\ df = <<>>
  /\ zero_div = FALSE
  /\ out = <<>>

SpecHeaders == InitHeaders /\ [][Next]_vars

Idle ==
  /\ headers = <<>>
  /\ cells = <<>>
  /\ df = <<>>
  /\ zero_div = FALSE
  /\ out = <<>>

pipeVars == <<headers, cells, df, zero_div, out>>

(***************************************************************************)
(* extract_asin, parse_category_levels and the header mapping, each        *)
(* applied to one input.                                                   *)
(***************************************************************************)
InitAsin ==
  /\ mode \in Modes
  /\ pc = "call"
  /\ arg \in LinkInputs
  /\ ret = None
  /\ Idle

CallExtractAsin ==
  /\ pc = "call"
  /\ ret' = ExtractAsin(mode, arg)
  /\ pc' = "return"
  /\ UNCHANGED <<mode, arg, pipeVars>>

SpecAsin == InitAsin /\ [][CallExtractAsin]_vars

InitCategory ==
  /\ mode \in Modes
  /\ pc = "call"
  /\ arg \in CatInputs
  /\ ret = NoCategory
  /\ Idle

CallParseCategoryLevels ==
  /\ pc = "call"
  /\ ret' = ParseCategoryLevels(mode, arg)
  /\ pc' = "return"
  /\ UNCHANGED <<mode, arg, pipeVars>>

SpecCategory == InitCategory /\ [][CallParseCategoryLevels]_vars

InitColmap ==
  /\ mode \in Modes
  /\ pc = "call"
  /\ arg \in HeaderInputs
  /\ ret = NoField
  /\ Idle

CallColmap ==
  /\ pc = "call"
  /\ ret' = Colmap(mode, arg)
  /\ pc' = "return"
  /\ UNCHANGED <<mode, arg, pipeVars>>

SpecColmap == InitColmap /\ [][CallColmap]_vars

(***************************************************************************)
(* parse_price applied to one raw price: texts built from a currency sign, *)
(* digits, the separators, a dash, a blank, a parenthetical annotation and *)
(* a noise word, next to the prices the specification quotes and the words *)
(* best-sellers reads as missing.                                          *)
(***************************************************************************)
MaxPriceFrags == 4

PriceFrags ==
  {<<"$">>, <<"1">>, <<"9">>, <<",">>, <<".">>, <<"-">>, <<" ">>,
   <<"(","c",")">>, <<"U","S","D">>}

P_19_99 == <<"1","9",".","9","9">>

P_1_234_56 == <<"$","1",",","2","3","4",".","5","6">>

P_9_00_converted ==
  <<"$","9",".","0","0"," ","(","c","o","n","v","e","r","t","e","d",")">>

P_range == <<"$","5",".","9","9"," ","-"," ","$","1","2",".","9","9">>

PriceExamples ==
  {P_19_99, P_1_234_56, P_9_00_converted, P_range,
   <<"N","a","N">>, <<"N","/","A">>, <<"n","o","n","e">>}

PriceInputs ==
  {None} \cup {Some(t) : t \in Texts(PriceFrags, MaxPriceFrags) \cup PriceExamples}

InitPrice ==
  /\ mode \in Modes
  /\ pc = "call"
  /\ arg \in PriceInputs
  /\ ret = NaN
  /\ Idle

CallParsePrice ==
  /\ pc = "call"
  /\ ret' = ParsePrice(mode, arg)
  /\ pc' = "return"
  /\ UNCHANGED <<mode, arg, pipeVars>>

SpecPrice == InitPrice /\ [][CallParsePrice]_vars

(***************************************************************************)
(* Properties of extract_asin.                                             *)
(***************************************************************************)
\* the texts of AsinLen characters that occur in s
Windows(s) == {SubSeq(s, i, i + AsinLen - 1) : i \in 1..(Len(s) - AsinLen + 1)}

IsAlnumChar(c) == IsUpper(c) \/ IsDigit(c) \/ c \in Range(LowerSeq)

UpperIds(s) == {w \in Windows(s) : \A k \in 1..AsinLen : IsAsinChar(w[k])}

AlnumIds(s) == {w \in Windows(s) : \A k \in 1..AsinLen : IsAlnumChar(w[k])}

\* the first position of w in s
FirstAt(s, w) == Min({i \in 1..Len(s) : OccursAt(s, w, i)})

DpIds(s) == {w \in UpperIds(s) : Contains(s, DpMarker \o w)}

GpIds(s) == {w \in UpperIds(s) : Contains(s, GpMarker \o w)}

\* the identifiers of letters of either case and digits that s embeds as
\* /dp/<id>/ or /gp/product/<id>/
EmbeddedAlnum(s) ==
  {w \in AlnumIds(s) : \/ Contains(s, DpMarker \o w \o <<"/">>)
                       \/ Contains(s, GpMarker \o w \o <<"/">>)}

\* C4 as stated: a URL that embeds one identifier of 10 letters or digits, as
\* /dp/<id>/ or /gp/product/<id>/, gives exactly that identifier.
C4_ExtractAsinAlnum ==
  (pc = "return" /\ ~arg.none) =>
    \A id \in EmbeddedAlnum(arg.s) :
      EmbeddedAlnum(arg.s) = {id} => ret = Some(id)

\* C4, amended: extract_asin returns the 10 characters of [A-Z0-9] that follow
\* the leftmost /dp/ followed by 10 such characters; when there is none, those
\* that follow the leftmost such /gp/product/; and missing when there is
\* neither or the input is not a string.  What it returns is always 10
\* upper-case letters or digits.
C4_ExtractAsinUpper ==
  pc = "return" =>
    IF arg.none THEN ret = None
    ELSE LET s == arg.s
         IN  /\ (DpIds(s) = {} /\ GpIds(s) = {}) <=> ret = None
             /\ ~ret.none =>
                  /\ Len(ret.s) = AsinLen
                  /\ \A k \in 1..AsinLen : IsAsinChar(ret.s[k])
             /\ DpIds(s) # {} =>
                  /\ ret.s \in DpIds(s)
                  /\ \A w \in DpIds(s) :
                       FirstAt(s, DpMarker \o ret.s) <= FirstAt(s, DpMarker \o w)
             /\ (DpIds(s) = {} /\ GpIds(s) # {}) =>
                  /\ ret.s \in GpIds(s)
                  /\ \A w \in GpIds(s) :
                       FirstAt(s, GpMarker \o ret.s) <= FirstAt(s, GpMarker \o w)

\* a URL with /gp/product/<IdA> before /dp/<IdB>: the /dp/ identifier is returned
C4_Witness ==
  /\ pc = "return"
  /\ arg = Some(GpMarker \o IdA \o DpMarker \o IdB)
  /\ ret = Some(IdB)

(***************************************************************************)
(* Properties of the header mapping.                                       *)
(***************************************************************************)
\* the rule table of the specification, in the order listed there
RuleField ==
  <<"rank", "page", "category", "title", "link", "rating_raw",
    "review_count_raw", "price_raw", "move_pct_raw", "sales_rank_now_raw",
    "sales_rank_was_raw">>

RuleMatches(k, lc) ==
  CASE k = 1 -> StartsWith(lc, W_rank) /\ ~Contains(lc, W_sales)
    [] k = 2 -> lc = W_page
    [] k = 3 -> Contains(lc, W_category)
    [] k = 4 -> Contains(lc, W_title)
    [] k = 5 -> Contains(lc, W_link) \/ Contains(lc, W_url)
    [] k = 6 -> Contains(lc, W_rating)
    [] k = 7 -> Contains(lc, W_review)
    [] k = 8 -> Contains(lc, W_price) /\ ~Contains(lc, W_move)
    [] k = 9 -> Contains(lc, W_move)
    [] k = 10 -> Contains(lc, W_sales_rank_now) \/ Contains(lc, W_rank_now)
    [] k = 11 -> Contains(lc, W_sales_rank_was) \/ Contains(lc, W_rank_was)

\* first match in listed order
RuleTable(h) ==
  LET hits == {k \in DOMAIN RuleField : RuleMatches(k, Lower(h))}
  IN  IF hits = {} THEN NoField ELSE RuleField[Min(hits)]

\* C8: in movers-shakers mode the mapping of every header is the first rule of
\* the specification's table that matches its lower-cased name; Sales_Rank_Now
\* and Sales_Rank_Was map to the sales-rank fields, and no header containing
\* "sales" maps to rank.
C8_ColmapIsRuleTable ==
  (pc = "return" /\ mode = "movers_shakers") =>
    /\ ret = RuleTable(arg)
    /\ Contains(Lower(arg), W_sales) => ret # "rank"
    /\ arg = H_Sales_Rank_Now => ret = "sales_rank_now_raw"
    /\ arg = H_Sales_Rank_Was => ret = "sales_rank_was_raw"

C8_Witness ==
  /\ pc = "return"
  /\ mode = "movers_shakers"
  /\ arg = H_Sales_Rank_Now
  /\ ret = "sales_rank_now_raw"

(***************************************************************************)
(* Properties of parse_category_levels.                                    *)
(***************************************************************************)
\* the decomposer of the specification
Decomposer(cat) ==
  IF cat.none \/ Strip(cat.s) = <<>> THEN NoCategory
  ELSE LET full == IF InMatches(cat.s) # {} THEN Strip(InGroup(cat.s))
                   ELSE Strip(cat.s)
           trimmed == [i \in DOMAIN Split(full) |-> Strip(Split(full)[i])]
           kept == SelectSeq(trimmed, LAMBDA p : p # <<>>)
       IN  [category_full |-> Some(full),
            cat_level_1 |-> IF kept # <<>> THEN Some(kept[1]) ELSE None,
            cat_level_2 |-> IF Len(kept) > 1 THEN Some(kept[2]) ELSE None]

\* C10: for every category text, parse_category_levels of either variant
\* returns what the decomposer of the specification returns; no level is an
\* empty or blank text, and a blank or non-string input gives three missing
\* fields.
C10_DecomposerAgrees ==
  pc = "return" =>
    /\ ret = Decomposer(arg)
    /\ \A l \in {ret.cat_level_1, ret.cat_level_2} : l.none \/ Strip(l.s) # <<>>

(***************************************************************************)
(* Properties of the normalization loop.                                   *)
(***************************************************************************)
Normalized == Has(df, "norm_review_density")

\* C1: after the normalization loop, in both variants, every row with a
\* review_density has a norm_review_density that is not missing and lies in
\* [0, 1], also in a group whose densities are all equal.
C1_NormPresentInUnit ==
  Normalized =>
    \A i \in Rows :
      ~Col(df, "review_density")[i].nan =>
        /\ ~Col(df, "norm_review_density")[i].nan
        /\ 0 <= Col(df, "norm_review_density")[i].n
        /\ Col(df, "norm_review_density")[i].n <= Col(df, "norm_review_density")[i].d

\* a group with fewer than two densities, or whose densities are all equal
Degenerate(rd, g) ==
  \/ Cardinality({j \in g : ~rd[j].nan}) < 2
  \/ \A j, k \in {j \in g : ~rd[j].nan} : rd[j] = rd[k]

\* C2: in both variants every row of a group with fewer than two densities
\* (none included), or with equal densities, gets norm_review_density 0.0,
\* and no division by a zero spread is made.
C2_DegenerateIsZero ==
  Normalized =>
    /\ ~zero_div
    /\ \A i \in Rows :
         Degenerate(Col(df, "review_density"),
                    {j \in Rows : Col(df, "cat_level_1")[j] = Col(df, "cat_level_1")[i]})
           => Col(df, "norm_review_density")[i] = Zero

(***************************************************************************)
(* Properties of price_segment_by_category.                                *)
(***************************************************************************)
\* x <= the q = qn/qd quantile, by linear interpolation, of the prices of the
\* rows S (none of them missing): with h = (|S| - 1) * q, lo = floor(h) and
\* r/qd = h - lo, the quantile is ((qd - r) * v[lo] + r * v[lo + 1]) / qd over
\* the ascending order statistics v[0], v[1], ...
AtMostQuantile(x, price, S, qn, qd) ==
  LET n == Cardinality(S)
      ord == CHOOSE f \in [1..n -> S] :
               /\ \A a, b \in 1..n : a # b => f[a] # f[b]
               /\ \A a, b \in 1..n : a < b => RLe(price[f[a]], price[f[b]])
      lo == ((n - 1) * qn) \div qd
      r == ((n - 1) * qn) % qd
      L == price[ord[lo + 1]]
      H == IF r = 0 THEN L ELSE price[ord[lo + 2]]
  IN  qd * x.n * L.d * H.d <= (qd - r) * L.n * x.d * H.d + r * H.n * x.d * L.d

ExpectedSegment(price, cat, i) ==
  LET S == {j \in Rows : cat[j] = cat[i] /\ ~price[j].nan}
  IN  IF price[i].nan \/ S = {} THEN "unknown"
      ELSE IF AtMostQuantile(price[i], price, S, 1, 4) THEN "Low"
      ELSE IF AtMostQuantile(price[i], price, S, 3, 4) THEN "Mid"
      ELSE "High"

\* C3: after price_segment_by_category every row's price_segment is "unknown"
\* when its price_norm is missing or its group has no price, and otherwise
\* "Low", "Mid" or "High" by comparison with the 25th and 75th percentiles
\* (linear interpolation) of the non-missing prices of its own cat_level_1
\* group; a row with a price is never "unknown".
C3_PriceSegment ==
  Has(df, "price_segment") =>
    \A i \in Rows :
      /\ Col(df, "price_segment")[i] =
           ExpectedSegment(Col(df, "price_norm"), Col(df, "cat_level_1"), i)
      /\ ~Col(df, "price_norm")[i].nan => Col(df, "price_segment")[i] # "unknown"

\* three rows of one group segmented Low, Mid and High, after the loop
C3_Witness ==
  /\ Has(df, "price_segment")
  /\ NRows = 3
  /\ \A i, j \in Rows : Col(df, "cat_level_1")[i] = Col(df, "cat_level_1")[j]
  /\ {Col(df, "price_segment")[i] : i \in Rows} = {"Low", "Mid", "High"}

(***************************************************************************)
(* Properties of transform as a whole.                                     *)
(***************************************************************************)
\* the value of the column name in an output row
Field(row, name) == row[CHOOSE k \in DOMAIN row : row[k].name = name].val

\* the cell of input row i under the header h
Cell(i, h) == cells[i][CHOOSE k \in DOMAIN headers : headers[k] = h]

\* C5: when transform completes the output has one row per input row, in
\* the input order: every output row carries the texts of the input row at
\* its position and the values parsed and derived from them.
C5_RowsCorrespond ==
  pc = "done" =>
    /\ Len(out) = Len(cells)
    /\ \A i \in Rows :
         /\ Field(out[i], "title") = Cell(i, W_title)
         /\ Field(out[i], "category") = Cell(i, W_category)
         /\ Field(out[i], "price_raw") = Cell(i, W_price)
         /\ Field(out[i], "price_norm") = ParsePrice(mode, Some(Cell(i, W_price)))
         /\ Field(out[i], "rank") = ParseInt(mode, Some(Cell(i, W_rank)))
         /\ Field(out[i], "asin") = ExtractAsin(mode, Some(Cell(i, W_link)))
         /\ Field(out[i], "cat_level_1") =
              ParseCategoryLevels(mode, Some(Cell(i, W_category))).cat_level_1
         /\ Field(out[i], "price_segment") = "unknown"
              <=> ParsePrice(mode, Some(Cell(i, W_price))).nan

\* a completed run on three rows of two interleaved groups, the middle row
\* without a price
C5_Witness ==
  /\ pc = "done"
  /\ Len(out) = 3
  /\ Field(out[1], "cat_level_1") = Field(out[3], "cat_level_1")
  /\ Field(out[1], "cat_level_1") # Field(out[2], "cat_level_1")
  /\ Field(out[2], "price_segment") = "unknown"
  /\ Field(out[3], "price_segment") # "unknown"

\* the canonical fields the column mapping of the mode can produce
CanonicalFields(m) ==
  IF m = "best_sellers"
    THEN {"rank", "page", "category", "title", "link", "rating_raw",
          "review_count_raw", "price_raw"}
  ELSE {"rank", "page", "category", "title", "link", "rating_raw",
        "review_count_raw", "price_raw", "move_pct_raw", "sales_rank_now_raw",
        "sales_rank_was_raw"}

\* the headers that the column mapping renames to f
MappedTo(f) == {k \in DOMAIN headers : Renamed(mode, headers)[k] = f}

\* C6: when no header maps to some canonical field, transform still
\* completes without raising in both variants (the field's parsed values are
\* missing and the projection leaves out the columns that are absent).
C6_AbsentFieldTolerated ==
  (/\ \A f \in CanonicalFields(mode) : Cardinality(MappedTo(f)) <= 1
   /\ \E f \in CanonicalFields(mode) : MappedTo(f) = {})
    => /\ pc # "raised"
       /\ pc = "done" =>
            \A i \in Rows : \A k \in DOMAIN out[i] :
              out[i][k].name \in CanonicalFields(mode)
                => MappedTo(out[i][k].name) # {}

\* C9: when two headers match the same canonical rule, after the column
\* mapping the canonical field is bound to exactly one column, that of the
\* later header, and the pipeline goes on to parse it.
C9_LastHeaderWins ==
  /\ pc = "parse" =>
       \A f \in CanonicalFields(mode) :
         MappedTo(f) # {} =>
           /\ Cardinality(Cols(df, f)) = 1
           /\ Col(df, f) = [i \in Rows |-> cells[i][Max(MappedTo(f))]]
  /\ (\A f \in CanonicalFields(mode) : MappedTo(f) # {}) => pc # "raised"

(***************************************************************************)
(* Properties of the rank delta (movers-shakers).                          *)
(***************************************************************************)
\* C7: sales_rank_change is sales_rank_was - sales_rank_now when both are
\* present and missing otherwise; move_direction is "up" exactly when the
\* change is > 0, "down" exactly when < 0, "no_change" exactly when 0, and
\* missing exactly when the change is missing.
C7_RankDelta ==
  Has(df, "move_direction") =>
    \A i \in Rows :
      LET was == Col(df, "sales_rank_was")[i]
          now == Col(df, "sales_rank_now")[i]
          change == Col(df, "sales_rank_change")[i]
          dir == Col(df, "move_direction")[i]
      IN  /\ change.nan <=> (was.nan \/ now.nan)
          /\ ~change.nan =>
               change.n * was.d * now.d = (was.n * now.d - now.n * was.d) * change.d
          /\ dir = "up" <=> (~change.nan /\ change.n > 0)
          /\ dir = "down" <=> (~change.nan /\ change.n < 0)
          /\ dir = "no_change" <=> (~change.nan /\ change.n = 0)
          /\ dir = "None" <=> change.nan

\* rows going up (12 -> 5), down (5 -> 12) and one without a previous rank
C7_Witness ==
  /\ Has(df, "move_direction")
  /\ NRows = 3
  /\ Col(df, "sales_rank_change") = <<Num(7, 1), Num(-7, 1), NaN>>
  /\ Col(df, "move_direction") = <<"up", "down", "None">>


(***************************************************************************)
(* Properties of parse_price.                                              *)
(***************************************************************************)
\* what remains of a raw price after the removals the specification lists:
\* parenthetical annotations, noise tokens, every character other than
\* digits . , - and then the commas
CleanedPrice(s) ==
  Filter(Filter(RemoveNoise(RemoveParens(s)), PriceChars), PriceChars \ {","})

\* the value of a numeric token, digits or digits "." digits
TokenValue(t) ==
  LET dots == {k \in DOMAIN t : t[k] = "."}
  IN  IF dots = {} THEN Num(DigitsVal(t), 1)
      ELSE LET k == Min(dots)
           IN  Num(DigitsVal(Take(t, k - 1) \o Drop(t, k)), Pow10(Len(t) - k))

\* the price of the specification: the last numeric token that remains,
\* missing for a missing or blank input and when no token remains
LastTokenPrice(p) ==
  IF p.none \/ Strip(p.s) = <<>> THEN NaN
  ELSE LET m == NumberTokens(CleanedPrice(p.s))
       IN  IF m = <<>> THEN NaN ELSE TokenValue(m[Len(m)])

\* C11: for every raw price, parse_price of either variant returns the value
\* of the last numeric token that remains after the removals, and missing
\* only when the input is missing or blank or no numeric token remains.
C11_ParsePriceLastToken ==
  pc = "return" => ret = LastTokenPrice(arg)

\* the three prices the specification quotes parse to 19.99, 1234.56 and 9.00
\* in both variants
C11_QuotedPrices ==
  pc = "return" =>
    /\ arg = Some(P_19_99) => ret = Num(1999, 100)
    /\ arg = Some(P_1_234_56) => ret = Num(123456, 100)
    /\ arg = Some(P_9_00_converted) => ret = Num(9, 1)

\* movers-shakers alone returns the last remaining token on every input
C11_LastTokenInMoversShakers ==
  (pc = "return" /\ mode = "movers_shakers") => ret = LastTokenPrice(arg)

\* best-sellers returns the last remaining token whenever what remains is
\* one unsigned number
C11_LastTokenInBestSellersWhenSingle ==
  (pc = "return" /\ mode = "best_sellers" /\ ~arg.none) =>
    LET c == CleanedPrice(arg.s)
    IN  (NumberTokens(c) = <<c>>) => ret = LastTokenPrice(arg)

====
